---- MODULE Spec2Model ----
(***************************************************************************)
(* canvas2toml: the upload orchestrator (cli.py, cmd_upload), its backup   *)
(* file, and the quiz report poller (Course.download_quiz_student_analysis)*)
(* as state machines.  Remote responses, the operator's answer and the     *)
(* wall clock are the environment and are chosen nondeterministically.     *)
(***************************************************************************)
EXTENDS Integers, Sequences, FiniteSets, TLC

\* ---------------------------------------------------------------- bounds
MaxSubs == 2          \* submissions in the uploaded document
MaxRuns == 2          \* upload runs on the same input file (SpecRuns)
MaxClock == 3         \* wall-clock ticks observed (SpecRuns)
TicksPerSecond == 2   \* clock ticks per second of the timestamp
MaxInterval == 2      \* poll_interval, in ticks (SpecPoll)
MaxTimeout == 4       \* timeout, in ticks (SpecPoll)
MaxLatency == 1       \* ticks a status request may take (SpecPoll)
MaxStr == 3           \* characters of a CSV cell (SpecTryInt)
MaxNames == 3         \* rows of the quiz export (SpecOrder)
MaxText == 3          \* characters that end a text (SpecToml)
MaxRows == 2          \* data rows of the quiz export (SpecPoints)
MaxPages == 3         \* pages of a collection (SpecPaginate)

\* ---------------------------------------------------------- Python values
None == [none |-> TRUE]
IntV(n) == [int |-> n]
StrV(s) == [str |-> s]

\* bool(v) of None, a number or a string: None, 0 and "" are falsy.
Truthy(v) == v # None /\ v # IntV(0) /\ v # StrV("")

\* a or b
PyOr(a, b) == IF Truthy(a) THEN a ELSE b

\* str(v) of an int or a str
PyStr(v) == IF "int" \in DOMAIN v THEN StrV(ToString(v.int)) ELSE v

\* ------------------------------------------------------------- the inputs
Scores == {None, IntV(0), IntV(8)}
Comments == {None, StrV(""), StrV("ok")}
SisIds == {None, StrV("a")}
Ids == {None, IntV(55)}

SubmissionsOf(S, C, SI, ID) == [score : S, comment : C, sis_id : SI, id : ID]

\* The operator's answers to the prompt, as typed (a sequence of characters).
Answers ==
    { <<"y">>, <<"Y">>, <<"y", "e", "s">>, <<" ", "Y", "e", "s", " ">>,
      <<"n">>, <<>>, <<"y", "e", "s", "s">> }

VARIABLES
    pc,               \* position of cmd_upload
    assignment_id,    \* data.get("assignment_id")
    submissions,      \* data.get("submission") or []
    valid_count,      \* _count_valid_submissions(submissions)
    prompt,           \* the count printed in the confirmation prompt
    confirm,          \* the answer, stripped and lowered
    i,                \* number of submissions the loop has taken
    processed,        \* the loop's counter of updated submissions
    resolved_cache,   \* cmd_upload's run-scoped cache: user_ref -> id
    user_cache,       \* Course._user_cache
    resolved_user_id, \* the id the current submission is addressed by
    previous,         \* the remote submission fetched for the current one
    hist,             \* per submission: the calls issued and their outcome
    fs,               \* the backup files: path -> file
    backup_path,      \* the path of this run's backup file
    clock,            \* wall clock, in ticks
    run,              \* number of the upload run
    runPath,          \* path each confirmed run wrote its backup to
    exitCode,         \* cmd_upload's return value, None while it runs
    message,          \* the line cmd_upload printed before it returned
    ppc,              \* position of download_quiz_student_analysis
    poll_interval,    \* its poll_interval argument
    timeout,          \* its timeout argument
    report_id,        \* report.get("id") of the creation response
    file_info,        \* the file reference found, None while there is none
    elapsed,          \* time.time() - start_time
    pollCalls,        \* GETs of the report issued
    downloadCalls,    \* GETs of the artifact issued
    pendingSeen,      \* status responses that carried no file.url
    createHadFile,    \* the creation response carried file.url
    perror,           \* the exception the poller raised, "none" if none
    cpc,              \* position of a call of a library function
    arg,              \* its argument
    ret               \* its return value

uploadVars ==
    << pc, assignment_id, submissions, valid_count, prompt,
       confirm, i, processed, resolved_cache, user_cache, resolved_user_id,
       previous, hist, fs, backup_path, clock, run, runPath, exitCode, message >>

pollVars ==
    << ppc, poll_interval, timeout, report_id, file_info, elapsed, pollCalls,
       downloadCalls, pendingSeen, createHadFile, perror >>

callVars == << cpc, arg, ret >>

vars == << uploadVars, pollVars, callVars >>

\* No library function is being called.
CallIdle == cpc = "idle" /\ arg = None /\ ret = None

\* -------------------------------------------------------------- helpers
RECURSIVE SumSeq(_)
SumSeq(s) == IF s = <<>> THEN 0 ELSE Head(s) + SumSeq(Tail(s))

\* Fault: the comment is tested with `is not None`, as the loop does.
ValidNotNone(sub) == sub.score # None \/ sub.comment # None

\* ("score" in sub and sub["score"] is not None) or ("comment" in sub and sub["comment"])
Valid(sub) == sub.score # None \/ Truthy(sub.comment)

\* sum(1 for sub in submissions if ...)
CountValid(subs) == SumSeq([k \in 1..Len(subs) |-> IF Valid(subs[k]) THEN 1 ELSE 0])

\* _resolve_user_ref: sis_id first, then the id keys.
ResolveUserRef(sub) ==
    IF Truthy(sub.sis_id) THEN StrV("sis_user_id:" \o sub.sis_id.str)
    ELSE IF sub.id # None THEN PyStr(sub.id)
    ELSE None

\* str.lower() on the characters the answers use
Lower(c) == CASE c = "Y" -> "y" [] c = "E" -> "e" [] c = "S" -> "s" [] c = "N" -> "n"
              [] OTHER -> c

RECURSIVE LStrip(_)
LStrip(s) == IF s # <<>> /\ Head(s) = " " THEN LStrip(Tail(s)) ELSE s

RECURSIVE RStrip(_)
RStrip(s) == IF s # <<>> /\ s[Len(s)] = " " THEN RStrip(SubSeq(s, 1, Len(s) - 1)) ELSE s

\* input(...).strip().lower()
StripLower(s) == LET t == RStrip(LStrip(s)) IN [k \in 1..Len(t) |-> Lower(t[k])]

\* Fault: every answer but n / no proceeds.
ProceedsDefaultYes(ans) == ans \notin { <<"n">>, <<"n", "o">> }

\* confirm in {"y", "yes"}
Proceeds(ans) == ans \in { <<"y">>, <<"y", "e", "s">> }

\* _timestamp(): the local time to the second
Timestamp(t) == t \div TicksPerSecond

NoFile == [exists |-> FALSE, blocks |-> <<>>]

NoCalls ==
    [visits |-> 0, lookups |-> 0, fetch |-> 0, backup |-> 0, update |-> 0,
     comment |-> 0, resolved |-> "no", addr |-> None, counted |-> FALSE,
     warned |-> FALSE, failed |-> FALSE, requests |-> <<>>, scan |-> None]

\* ------------------------------------------- Course.resolve_canvas_user_id
\* The id the remote service knows the student of the model by.
RemoteId == IntV(7)

\* Responses to GET /api/v1/users/<candidate>: 404, another non-2xx status,
\* a user without an id, a user with an id.
DirectResps == {"404", "error", "noid", "hit"}

UserA == [id |-> RemoteId, sis_user_id |-> StrV("a"), login_id |-> None]
UserB == [id |-> IntV(9), sis_user_id |-> StrV("b"), login_id |-> StrV("lb")]
UserNoId == [id |-> None, sis_user_id |-> StrV("a"), login_id |-> None]

\* Responses to the roster scan: a failure, or the list of the course's users.
Rosters ==
    { [ok |-> FALSE, users |-> <<>>], [ok |-> TRUE, users |-> <<>>],
      [ok |-> TRUE, users |-> <<UserB, UserA>>],
      [ok |-> TRUE, users |-> <<UserNoId, UserB>>] }

\* str.isdigit() and int() on the decimal strings of the model
Digits == {ToString(n) : n \in 0..99}
IsDigit(ref) == ref.str \in Digits
ParseInt(ref) == IntV(CHOOSE n \in 0..99 : ToString(n) = ref.str)

\* Fault: the cache is never hit.
GetMiss(cache, key) == None

\* dict.get(key): None when the key is absent
Get(cache, key) == IF key \in DOMAIN cache THEN cache[key] ELSE None

\* cache[key] = value
Put(cache, key, value) == [k \in DOMAIN cache \cup {key} |-> IF k = key THEN value ELSE cache[k]]

\* The body of the roster loop for one user.
FillUser(cache, u) ==
    IF ~Truthy(u.id) THEN cache
    ELSE LET c1 == IF Truthy(u.sis_user_id)
                   THEN Put(cache, "sis_user_id:" \o u.sis_user_id.str, u.id)
                   ELSE cache
             c2 == IF Truthy(u.login_id)
                   THEN Put(c1, "sis_login_id:" \o u.login_id.str, u.id)
                   ELSE c1
         IN Put(c2, PyStr(u.id).str, u.id)

RECURSIVE FillCache(_, _)
FillCache(cache, users) ==
    IF users = <<>> THEN cache ELSE FillCache(FillUser(cache, Head(users)), Tail(users))

\* The fallback roster scan; its exceptions are swallowed.
RosterScan(ref, cache, roster, n) ==
    IF ~roster.ok
    THEN [raised |-> FALSE, result |-> None, cache |-> cache, lookups |-> n + 1]
    ELSE LET c == FillCache(cache, roster.users)
         IN [raised |-> FALSE, result |-> Get(c, ref.str), cache |-> c,
             lookups |-> n + 1]

\* One direct lookup: d is the response, rest the continuation on 404 / no id.
Direct(ref, cache, d, n, rest) ==
    CASE d = "error" -> [raised |-> TRUE, result |-> None, cache |-> cache, lookups |-> n]
      [] d = "hit" -> [raised |-> FALSE, result |-> RemoteId,
                       cache |-> Put(cache, ref.str, RemoteId), lookups |-> n]
      [] OTHER -> rest

\* str.startswith(prefix)
StartsWith(s, prefix) == Len(s) >= Len(prefix) /\ SubSeq(s, 1, Len(prefix)) = prefix

\* s.replace(old, new, 1) on a string that starts with old
ReplacePrefix(s, old, new) == new \o SubSeq(s, Len(old) + 1, Len(s))

\* The identifiers the direct lookup tries for a reference, in order.
Candidates(ref) ==
    IF StartsWith(ref.str, "sis_user_id:")
    THEN << ref.str, ReplacePrefix(ref.str, "sis_user_id:", "sis_login_id:") >>
    ELSE IF StartsWith(ref.str, "sis_login_id:")
    THEN << ref.str, ReplacePrefix(ref.str, "sis_login_id:", "sis_user_id:") >>
    ELSE << "sis_user_id:" \o ref.str, "sis_login_id:" \o ref.str >>

\* The requests resolve_canvas_user_id(user_ref) issues, in the order it
\* issues them: GET /users/<candidate> for each candidate until one answers
\* with an id or with a status that raises, then the roster scan.
Requests(ref, cache, d1, d2) ==
    IF IsDigit(ref) \/ Truthy(Get(cache, ref.str)) THEN << >>
    ELSE IF d1 \in {"error", "hit"} THEN << Candidates(ref)[1] >>
    ELSE IF d2 \in {"error", "hit"} THEN << Candidates(ref)[1], Candidates(ref)[2] >>
    ELSE << Candidates(ref)[1], Candidates(ref)[2], "roster" >>

\* resolve_canvas_user_id(user_ref) under the responses d1, d2 (direct lookups)
\* and roster (roster scan): what it returns or raises, the cache it leaves and
\* the number of requests it issued.
ResolveCanvasUserId(ref, cache, d1, d2, roster) ==
    IF IsDigit(ref)
    THEN [raised |-> FALSE, result |-> ParseInt(ref), cache |-> cache, lookups |-> 0]
    ELSE IF Truthy(Get(cache, ref.str))
    THEN [raised |-> FALSE, result |-> Get(cache, ref.str), cache |-> cache, lookups |-> 0]
    ELSE Direct(ref, cache, d1, 1,
                Direct(ref, cache, d2, 2, RosterScan(ref, cache, roster, 2)))

\* ------------------------------------------------ _append_backup_submission
CommentLate == [comment |-> StrV("late"), author_name |-> StrV("TA")]
CommentAnon == [comment |-> StrV("redo"), author_name |-> None]
CommentEmpty == [comment |-> StrV(""), author_name |-> StrV("TA")]

\* The remote submission states get_submission may return.
PrevStates ==
    [score : {None, IntV(0), IntV(7)}, entered_score : {None, IntV(0), IntV(7)},
     grade : {None, StrV("0"), StrV("7")},
     submission_comments : {<<>>, <<CommentLate, CommentEmpty>>, <<CommentAnon>>}]

\* The remote states of a batch run: an ungraded and a graded submission.
PrevBasic ==
    { [score |-> None, entered_score |-> None, grade |-> None,
       submission_comments |-> <<>>],
      [score |-> IntV(7), entered_score |-> IntV(7), grade |-> StrV("7"),
       submission_comments |-> <<CommentLate>>] }

\* previous.get("score") or previous.get("entered_score") or previous.get("grade")
PrevScore(prev) == PyOr(PyOr(prev.score, prev.entered_score), prev.grade)

\* "author: text" or "text" for a comment with text
CommentPart(item) ==
    IF Truthy(item.author_name) THEN <<item.author_name.str, ": ", item.comment.str>>
    ELSE <<item.comment.str>>

RECURSIVE CommentParts(_)
CommentParts(items) ==
    IF items = <<>> THEN <<>>
    ELSE IF Truthy(Head(items).comment)
         THEN <<CommentPart(Head(items))>> \o CommentParts(Tail(items))
         ELSE CommentParts(Tail(items))

\* The [[submission]] block appended for submission idx of run r: the keys
\* written (a key that is not written is None).
BackupBlock(r, idx, sub, prev) ==
    [kind |-> "submission", run |-> r, idx |-> idx, id |-> sub.id,
     sis_id |-> sub.sis_id, previous_score |-> PrevScore(prev),
     previous_comment |-> CommentParts(prev.submission_comments)]

HeaderBlock(r) ==
    [kind |-> "header", run |-> r, idx |-> 0, id |-> None, sis_id |-> None,
     previous_score |-> None, previous_comment |-> <<>>]

\* path.open("a"): the file is created when missing, its content kept.
AppendFile(files, path, block) ==
    [files EXCEPT ![path] = [exists |-> TRUE, blocks |-> Append(@.blocks, block)]]

\* path.open("w"): the file is created or truncated.
WriteFile(files, path, block) ==
    [files EXCEPT ![path] = [exists |-> TRUE, blocks |-> <<block>>]]

\* _markdown_to_html(str(comment).rstrip()): None only for None
CommentText(comment) == IF comment = None THEN None ELSE [html |-> comment.str]

\* ------------------------------------------------------------ cmd_upload
Paths == 0..(MaxClock \div TicksPerSecond)

\* Fault: every return reports success.
ReturnZero(code, msg) == pc' = "done" /\ exitCode' = IntV(0) /\ message' = msg

\* print(msg); return code
Return(code, msg) == pc' = "done" /\ exitCode' = IntV(code) /\ message' = msg

Bump(idx, field) == [hist EXCEPT ![idx][field] = @ + 1]

\* _validate_course: the course configuration is missing or does not load.
LoadCourse ==
    /\ pc = "start"
    /\ \E ok \in BOOLEAN : IF ok THEN pc' = "input" /\ UNCHANGED << exitCode, message >>
        ELSE Return(1, "Course configuration not found.")
    /\ UNCHANGED << assignment_id, submissions, valid_count, prompt, confirm, i,
                    processed, resolved_cache, user_cache, resolved_user_id,
                    previous, hist, fs, backup_path, clock, run, runPath >>
    /\ UNCHANGED << pollVars, callVars >>

\* input_path.is_file()
CheckInput ==
    /\ pc = "input"
    /\ \E ok \in BOOLEAN : IF ok THEN pc' = "load" /\ UNCHANGED << exitCode, message >>
        ELSE Return(1, "Input TOML not found")
    /\ UNCHANGED << assignment_id, submissions, valid_count, prompt, confirm, i,
                    processed, resolved_cache, user_cache, resolved_user_id,
                    previous, hist, fs, backup_path, clock, run, runPath >>
    /\ UNCHANGED << pollVars, callVars >>

\* Load the document, check it and count the eligible submissions.
LoadDoc ==
    /\ pc = "load"
    /\ IF assignment_id = None
       THEN /\ Return(1, "assignment_id is required in the TOML file.")
            /\ UNCHANGED << valid_count, prompt >>
       ELSE IF submissions = <<>>
       THEN /\ Return(1, "No submissions found in the TOML file.")
            /\ UNCHANGED << valid_count, prompt >>
       ELSE /\ valid_count' = CountValid(submissions)
            /\ IF valid_count' = 0
               THEN /\ Return(0, "No submissions contain score or comment to upload.")
                    /\ prompt' = prompt
               ELSE pc' = "prompt" /\ prompt' = valid_count' /\ UNCHANGED << exitCode, message >>
    /\ UNCHANGED << assignment_id, submissions, confirm, i, processed,
                    resolved_cache, user_cache, resolved_user_id, previous, hist,
                    fs, backup_path, clock, run, runPath >>
    /\ UNCHANGED << pollVars, callVars >>

\* The confirmation prompt; on yes the backup header is written.
Confirm ==
    /\ pc = "prompt"
    /\ \E ans \in Answers :
        /\ confirm' = StripLower(ans)
        /\ IF Proceeds(confirm')
           THEN /\ backup_path' = Timestamp(clock)
                /\ fs' = WriteFile(fs, backup_path', HeaderBlock(run))
                /\ runPath' = Append(runPath, [run |-> run, path |-> backup_path'])
                /\ pc' = "loop"
                /\ UNCHANGED << exitCode, message >>
           ELSE Return(0, "Upload cancelled.") /\ UNCHANGED << backup_path, fs, runPath >>
    /\ UNCHANGED << assignment_id, submissions, valid_count, prompt, i, processed,
                    resolved_cache, user_cache, resolved_user_id, previous, hist,
                    clock, run >>
    /\ UNCHANGED << pollVars, callVars >>

\* Fault: the `or user_ref` fallback is left out.
ResolvedOnly(result, ref) == result

\* course.resolve_canvas_user_id(user_ref) or user_ref
ResolvedOrRef(result, ref) == PyOr(result, ref)

\* user_ref is None or (score is None and comment is None)
Skips(sub) == ResolveUserRef(sub) = None \/ (sub.score = None /\ sub.comment = None)

\* The head of the loop: the next submission, or the end of the run.
LoopNext ==
    /\ pc = "loop"
    /\ IF i = Len(submissions)
       THEN Return(0, "Backup of previous scores/comments saved") /\ UNCHANGED << i, hist >>
       ELSE /\ i' = i + 1
            /\ hist' = Bump(i', "visits")
            /\ pc' = IF Skips(submissions[i']) THEN "loop" ELSE "resolve"
            /\ UNCHANGED << exitCode, message >>
    /\ UNCHANGED << assignment_id, submissions, valid_count, prompt, confirm,
                    processed, resolved_cache, user_cache, resolved_user_id,
                    previous, fs, backup_path, clock, run, runPath >>
    /\ UNCHANGED << pollVars, callVars >>

\* resolved_user_id: from the run's cache, or resolve_canvas_user_id(...) or user_ref
Resolve ==
    /\ pc = "resolve"
    /\ LET ref == ResolveUserRef(submissions[i]) IN
       IF ref.str \in DOMAIN resolved_cache
       THEN /\ resolved_user_id' = resolved_cache[ref.str]
            /\ hist' = [hist EXCEPT ![i].resolved = "cached"]
            /\ pc' = "fetch"
            /\ UNCHANGED << resolved_cache, user_cache >>
       ELSE \E d1 \in DirectResps, d2 \in DirectResps, roster \in Rosters :
            LET r == ResolveCanvasUserId(ref, user_cache, d1, d2, roster)
                reqs == Requests(ref, user_cache, d1, d2)
                scanned == IF Len(reqs) = 3 THEN roster ELSE None IN
            /\ user_cache' = r.cache
            /\ IF r.raised
               THEN /\ hist' = [hist EXCEPT ![i].resolved = "raised",
                                            ![i].lookups = @ + r.lookups,
                                            ![i].requests = @ \o reqs,
                                            ![i].failed = TRUE]
                    /\ pc' = "loop"
                    /\ UNCHANGED << resolved_cache, resolved_user_id >>
               ELSE /\ resolved_user_id' = ResolvedOrRef(r.result, ref)
                    /\ resolved_cache' = Put(resolved_cache, ref.str, resolved_user_id')
                    /\ hist' = [hist EXCEPT ![i].resolved =
                                               IF Truthy(r.result) THEN "id" ELSE "none",
                                            ![i].lookups = @ + r.lookups,
                                            ![i].requests = @ \o reqs,
                                            ![i].scan = scanned]
                    /\ pc' = "fetch"
    /\ UNCHANGED << assignment_id, submissions, valid_count, prompt, confirm, i,
                    processed, previous, fs, backup_path, clock, run, runPath,
                    exitCode, message >>
    /\ UNCHANGED << pollVars, callVars >>

\* course.get_submission: the remote state, or a failure.
Fetch(states) ==
    /\ pc = "fetch"
    /\ \E resp \in states \cup {None} :
        /\ previous' = resp
        /\ hist' = [hist EXCEPT ![i].fetch = @ + 1, ![i].addr = resolved_user_id,
                                 ![i].failed = (resp = None)]
        /\ pc' = IF resp = None THEN "loop" ELSE "backup"
    /\ UNCHANGED << assignment_id, submissions, valid_count, prompt, confirm, i,
                    processed, resolved_cache, user_cache, resolved_user_id, fs,
                    backup_path, clock, run, runPath, exitCode, message >>
    /\ UNCHANGED << pollVars, callVars >>

\* Fault: the backup block is not written before the update.
BackupSkipped ==
    /\ pc = "backup"
    /\ hist' = Bump(i, "backup")
    /\ pc' = "update"
    /\ UNCHANGED << assignment_id, submissions, valid_count, prompt, confirm, i,
                    processed, resolved_cache, user_cache, resolved_user_id,
                    previous, fs, backup_path, clock, run, runPath, exitCode, message >>
    /\ UNCHANGED << pollVars, callVars >>

\* _append_backup_submission(backup_path, submission, previous)
Backup ==
    /\ pc = "backup"
    /\ fs' = AppendFile(fs, backup_path, BackupBlock(run, i, submissions[i], previous))
    /\ hist' = Bump(i, "backup")
    /\ pc' = "update"
    /\ UNCHANGED << assignment_id, submissions, valid_count, prompt, confirm, i,
                    processed, resolved_cache, user_cache, resolved_user_id,
                    previous, backup_path, clock, run, runPath, exitCode, message >>
    /\ UNCHANGED << pollVars, callVars >>

\* Fault: a failed update ends the command instead of the iteration.
UpdateFailureAborts ==
    /\ pc = "update"
    /\ \E ok \in BOOLEAN :
        IF ~ok
        THEN /\ hist' = [hist EXCEPT ![i].update = @ + 1, ![i].failed = TRUE]
             /\ Return(1, "Failed to update")
             /\ processed' = processed
        ELSE IF CommentText(submissions[i].comment) # None
        THEN /\ hist' = Bump(i, "update")
             /\ pc' = "comment"
             /\ processed' = processed
             /\ UNCHANGED << exitCode, message >>
        ELSE /\ hist' = [hist EXCEPT ![i].update = @ + 1, ![i].counted = TRUE]
             /\ pc' = "loop"
             /\ processed' = processed + 1
             /\ UNCHANGED << exitCode, message >>
    /\ UNCHANGED << assignment_id, submissions, valid_count, prompt, confirm, i,
                    resolved_cache, user_cache, resolved_user_id, previous, fs,
                    backup_path, clock, run, runPath >>
    /\ UNCHANGED << pollVars, callVars >>

\* course.update_submission(...): on success the comment call follows when
\* there is a comment text, else the submission is counted.
Update ==
    /\ pc = "update"
    /\ \E ok \in BOOLEAN :
        IF ~ok
        THEN /\ hist' = [hist EXCEPT ![i].update = @ + 1, ![i].failed = TRUE]
             /\ pc' = "loop"
             /\ processed' = processed
        ELSE IF CommentText(submissions[i].comment) # None
        THEN /\ hist' = Bump(i, "update")
             /\ pc' = "comment"
             /\ processed' = processed
        ELSE /\ hist' = [hist EXCEPT ![i].update = @ + 1, ![i].counted = TRUE]
             /\ pc' = "loop"
             /\ processed' = processed + 1
    /\ UNCHANGED << assignment_id, submissions, valid_count, prompt, confirm, i,
                    resolved_cache, user_cache, resolved_user_id, previous, fs,
                    backup_path, clock, run, runPath, exitCode, message >>
    /\ UNCHANGED << pollVars, callVars >>

\* Fault: no inner try, a failed comment post reaches the outer handler.
CommentFailureEscapes ==
    /\ pc = "comment"
    /\ \E ok \in BOOLEAN :
        /\ hist' = [hist EXCEPT ![i].comment = @ + 1, ![i].warned = ~ok,
                                ![i].counted = ok, ![i].failed = ~ok]
        /\ processed' = IF ok THEN processed + 1 ELSE processed
    /\ pc' = "loop"
    /\ UNCHANGED << assignment_id, submissions, valid_count, prompt, confirm, i,
                    resolved_cache, user_cache, resolved_user_id, previous, fs,
                    backup_path, clock, run, runPath, exitCode, message >>
    /\ UNCHANGED << pollVars, callVars >>

\* course.add_comment(...): a failure is printed as a warning.
Comment ==
    /\ pc = "comment"
    /\ \E ok \in BOOLEAN :
        hist' = [hist EXCEPT ![i].comment = @ + 1, ![i].warned = ~ok,
                             ![i].counted = TRUE]
    /\ processed' = processed + 1
    /\ pc' = "loop"
    /\ UNCHANGED << assignment_id, submissions, valid_count, prompt, confirm, i,
                    resolved_cache, user_cache, resolved_user_id, previous, fs,
                    backup_path, clock, run, runPath, exitCode, message >>
    /\ UNCHANGED << pollVars, callVars >>

\* ------------------------------------------------------ the specifications
DocsOf(kinds) == UNION { [1..n -> kinds] : n \in 0..MaxSubs }

InitRun ==
    /\ pc = "start"
    /\ valid_count = 0
    /\ prompt = 0
    /\ confirm = <<>>
    /\ i = 0
    /\ processed = 0
    /\ resolved_cache = << >>
    /\ user_cache = << >>
    /\ resolved_user_id = None
    /\ previous = None
    /\ hist = [k \in 1..Len(submissions) |-> NoCalls]
    /\ fs = [p \in Paths |-> NoFile]
    /\ backup_path = 0
    /\ clock = 0
    /\ run = 1
    /\ runPath = << >>
    /\ exitCode = None
    /\ message = ""

\* ------------------------------------ Course.download_quiz_student_analysis
\* The "file" member of a report: absent, without url, with an empty url, with a url.
Files == {None, [url |-> None], [url |-> StrV("")], [url |-> StrV("https://f/1")]}

\* The reports the service may answer with.
Reports == [id : {None, IntV(0), IntV(5)}, file : Files]

HasUrl(report) == report.file # None /\ Truthy(report.file.url)

\* Fault: any file member counts, with or without a url.
HasFileAnyDict(report) == IF report.file # None THEN report.file ELSE None

\* _has_file(data): the file reference when it is a dict with a url
HasFile(report) ==
    IF report.file # None /\ Truthy(report.file.url) THEN report.file ELSE None

Raise(kind) == ppc' = "done" /\ perror' = kind

\* POST .../reports and the first _has_file(report); start_time is taken
\* here, and the clock has moved on by d ticks when the loop is entered.
Create ==
    /\ ppc = "create"
    /\ \E ok \in BOOLEAN, report \in Reports, d \in 0..MaxLatency :
        IF ~ok
        THEN /\ Raise("http")
             /\ UNCHANGED << report_id, file_info, createHadFile, elapsed >>
        ELSE /\ report_id' = report.id
             /\ file_info' = HasFile(report)
             /\ createHadFile' = HasUrl(report)
             /\ elapsed' = d
             /\ ppc' = IF file_info' = None THEN "check" ELSE "download"
             /\ perror' = perror
    /\ UNCHANGED << poll_interval, timeout, pollCalls, downloadCalls,
                    pendingSeen >>
    /\ UNCHANGED << uploadVars, callVars >>

\* Fault: the loop head never tests the deadline.
CheckNoDeadline ==
    /\ ppc = "check"
    /\ IF file_info # None THEN ppc' = "download" /\ perror' = perror
       ELSE IF ~Truthy(report_id) THEN Raise("missing_id")
       ELSE ppc' = "poll" /\ perror' = perror
    /\ UNCHANGED << poll_interval, timeout, report_id, file_info, elapsed,
                    pollCalls, downloadCalls, pendingSeen, createHadFile >>
    /\ UNCHANGED << uploadVars, callVars >>

\* Fault: the loop head tests the job identifier before the deadline.
CheckIdFirst ==
    /\ ppc = "check"
    /\ IF file_info # None THEN ppc' = "download" /\ perror' = perror
       ELSE IF ~Truthy(report_id) THEN Raise("missing_id")
       ELSE IF elapsed > timeout THEN Raise("timeout")
       ELSE ppc' = "poll" /\ perror' = perror
    /\ UNCHANGED << poll_interval, timeout, report_id, file_info, elapsed,
                    pollCalls, downloadCalls, pendingSeen, createHadFile >>
    /\ UNCHANGED << uploadVars, callVars >>

\* The head of the polling loop: the deadline, then the job identifier.
Check ==
    /\ ppc = "check"
    /\ IF file_info # None THEN ppc' = "download" /\ perror' = perror
       ELSE IF elapsed > timeout THEN Raise("timeout")
       ELSE IF ~Truthy(report_id) THEN Raise("missing_id")
       ELSE ppc' = "poll" /\ perror' = perror
    /\ UNCHANGED << poll_interval, timeout, report_id, file_info, elapsed,
                    pollCalls, downloadCalls, pendingSeen, createHadFile >>
    /\ UNCHANGED << uploadVars, callVars >>

\* GET .../reports/<id>, which takes d ticks; a report with a file ends the loop.
Poll ==
    /\ ppc = "poll"
    /\ pollCalls' = pollCalls + 1
    /\ \E ok \in BOOLEAN, report \in Reports, d \in 0..MaxLatency :
        /\ elapsed' = elapsed + d
        /\ IF ~ok
           THEN Raise("http") /\ UNCHANGED << file_info, pendingSeen >>
           ELSE /\ file_info' = HasFile(report)
                /\ pendingSeen' = IF HasUrl(report) THEN pendingSeen ELSE pendingSeen + 1
                /\ ppc' = IF file_info' # None THEN "download" ELSE "sleep"
                /\ perror' = perror
    /\ UNCHANGED << poll_interval, timeout, report_id, downloadCalls, createHadFile >>
    /\ UNCHANGED << uploadVars, callVars >>

\* time.sleep(poll_interval)
Sleep ==
    /\ ppc = "sleep"
    /\ elapsed' = elapsed + poll_interval
    /\ ppc' = "check"
    /\ UNCHANGED << poll_interval, timeout, report_id, file_info, pollCalls,
                    downloadCalls, pendingSeen, createHadFile, perror >>
    /\ UNCHANGED << uploadVars, callVars >>

\* GET file_info["url"]
Download ==
    /\ ppc = "download"
    /\ downloadCalls' = downloadCalls + 1
    /\ \E ok \in BOOLEAN : Raise(IF ok THEN "none" ELSE "http")
    /\ UNCHANGED << poll_interval, timeout, report_id, file_info, elapsed,
                    pollCalls, pendingSeen, createHadFile >>
    /\ UNCHANGED << uploadVars, callVars >>

PollStep == Create \/ Check \/ Poll \/ Sleep \/ Download

InitPoll ==
    /\ ppc = "create"
    /\ poll_interval \in 1..MaxInterval
    /\ timeout \in 0..MaxTimeout
    /\ report_id = None
    /\ file_info = None
    /\ elapsed = 0
    /\ pollCalls = 0
    /\ downloadCalls = 0
    /\ pendingSeen = 0
    /\ createHadFile = FALSE
    /\ perror = "none"

\* The poller is not running.
PollIdle ==
    /\ ppc = "idle"
    /\ poll_interval = 1
    /\ timeout = 0
    /\ report_id = None
    /\ file_info = None
    /\ elapsed = 0
    /\ pollCalls = 0
    /\ downloadCalls = 0
    /\ pendingSeen = 0
    /\ createHadFile = FALSE
    /\ perror = "none"

\* The documents of a batch run: with and without score, comment and sis_id.
UploadKinds == SubmissionsOf({None, IntV(8)}, Comments, SisIds, {None})

\* One upload run of any document of at most MaxSubs submissions.
Init ==
    /\ assignment_id \in {None, IntV(101)}
    /\ submissions \in DocsOf(UploadKinds)
    /\ InitRun
    /\ CallIdle
    /\ PollIdle

UploadStep(states) ==
    \/ LoadCourse
    \/ CheckInput
    \/ LoadDoc
    \/ Confirm
    \/ LoopNext
    \/ Resolve
    \/ Fetch(states)
    \/ Backup
    \/ Update
    \/ Comment

Next == UploadStep(PrevBasic)

Spec == Init /\ [][Next]_vars

\* ---- the eligible count, for every document of every kind of submission
InitCount ==
    /\ assignment_id = IntV(101)
    /\ submissions \in DocsOf(SubmissionsOf(Scores, Comments, SisIds, Ids))
    /\ InitRun
    /\ CallIdle
    /\ PollIdle

NextCount == LoadCourse \/ CheckInput \/ LoadDoc

SpecCount == InitCount /\ [][NextCount]_vars

\* ---- one submission of any kind against every remote submission state
InitBackup ==
    /\ assignment_id = IntV(101)
    /\ submissions \in [1..1 -> SubmissionsOf(Scores, Comments, SisIds, Ids)]
    /\ InitRun
    /\ CallIdle
    /\ PollIdle

NextBackup == UploadStep(PrevStates)

SpecBackup == InitBackup /\ [][NextBackup]_vars

\* ---- repeated upload runs on the same input file, with the clock running
\* The command is invoked again on the same input file.
Restart ==
    /\ pc = "done"
    /\ run < MaxRuns
    /\ run' = run + 1
    /\ pc' = "start"
    /\ valid_count' = 0
    /\ prompt' = 0
    /\ confirm' = <<>>
    /\ i' = 0
    /\ processed' = 0
    /\ resolved_cache' = << >>
    /\ user_cache' = << >>
    /\ resolved_user_id' = None
    /\ previous' = None
    /\ hist' = [k \in 1..Len(submissions) |-> NoCalls]
    /\ exitCode' = None
    /\ message' = ""
    /\ UNCHANGED << assignment_id, submissions, fs, backup_path, clock, runPath >>
    /\ UNCHANGED << pollVars, callVars >>

\* The wall clock advances.
Tick ==
    /\ clock < MaxClock
    /\ clock' = clock + 1
    /\ UNCHANGED << pc, assignment_id, submissions, valid_count, prompt, confirm,
                    i, processed, resolved_cache, user_cache, resolved_user_id,
                    previous, hist, fs, backup_path, run, runPath, exitCode, message >>
    /\ UNCHANGED << pollVars, callVars >>

InitRuns ==
    /\ assignment_id = IntV(101)
    /\ submissions \in [1..1 -> SubmissionsOf({IntV(8)}, {None, StrV("ok")}, {None}, {IntV(55)})]
    /\ InitRun
    /\ CallIdle
    /\ PollIdle

NextRuns == UploadStep(PrevBasic) \/ Restart \/ Tick

SpecRuns == InitRuns /\ [][NextRuns]_vars

\* ---- the report poller, for every poll interval, timeout and response
InitPollSpec ==
    /\ assignment_id = None
    /\ submissions = << >>
    /\ InitRun
    /\ CallIdle
    /\ InitPoll

NextPoll == PollStep

SpecPoll == InitPollSpec /\ [][NextPoll]_vars

\* The poller runs in one thread that is never suspended for ever: every
\* request returns or raises (each carries a request timeout) and every sleep
\* returns.
SpecPollFair == InitPollSpec /\ [][NextPoll]_vars /\ WF_vars(NextPoll)

\* ================================================================ claims
\* A submission carries a non-null score or a non-empty comment.
Eligible(sub) == sub.score # None \/ (sub.comment # None /\ sub.comment # StrV(""))

EligibleCount == Cardinality({k \in 1..Len(submissions) : Eligible(submissions[k])})

Subs == DOMAIN hist

\* This run's backup file holds a [[submission]] block for submission k.
HasBackupBlock(k) ==
    \E b \in 1..Len(fs[backup_path].blocks) :
        LET blk == fs[backup_path].blocks[b]
        IN blk.kind = "submission" /\ blk.idx = k /\ blk.run = run

\* The operator answered y or yes.
Answered == confirm \in { <<"y">>, <<"y", "e", "s">> }

\* The loop is done with submission k.
Over(k) == k < i \/ (k = i /\ pc \in {"loop", "done"})

\* C1: an update call is issued for a submission only after its remote state
\* was fetched and its backup block appended: in every state, a submission
\* with an update call has a fetch call and a block in the backup file.
C1_BackupBeforeUpdate ==
    \A k \in Subs :
        /\ hist[k].update > 0 => hist[k].fetch > 0 /\ HasBackupBlock(k)
        /\ hist[k].backup > 0 => hist[k].fetch > 0

C1_Witness == \E k \in Subs : hist[k].update > 0 /\ HasBackupBlock(k)

\* C2: unless the operator answers y or yes, no backup file exists and no
\* remote call has been issued; the prompt states the count of eligible
\* submissions.
C2_GatedByConfirmation ==
    /\ (pc \in {"start", "input", "load", "prompt"} \/ ~Answered) =>
            /\ \A p \in Paths : ~fs[p].exists
            /\ \A k \in Subs : hist[k] = NoCalls
    /\ pc = "prompt" => prompt = EligibleCount

C2_Witness ==
    /\ pc = "done"
    /\ confirm = <<"y", "e", "s", "s">>
    /\ prompt = 2
    /\ \A p \in Paths : ~fs[p].exists

\* C3: for a submission with a null score and an empty or absent comment no
\* update call and no comment-post call is ever issued.
C3_IneligibleNeverUploaded ==
    \A k \in Subs :
        ~Eligible(submissions[k]) => hist[k].update = 0 /\ hist[k].comment = 0

\* C4: the count reported to the confirmation prompt equals the number of
\* submissions with a non-null score or a non-empty comment.
C4_EligibleCount ==
    /\ pc = "prompt" => valid_count = EligibleCount /\ prompt = EligibleCount
    /\ (pc = "done" /\ exitCode = IntV(0)) => valid_count = EligibleCount

C4_Witness ==
    /\ pc = "prompt"
    /\ Len(submissions) = 2
    /\ submissions[1].score = None /\ submissions[1].comment = StrV("")
    /\ submissions[2].score = IntV(8)
    /\ prompt = 1

\* C5: a failed comment-post call after a successful update is only warned
\* about: no further call is issued for the submission, it is counted as
\* processed, and every submission of the list is still visited.
C5_CommentFailureOnlyWarned ==
    /\ \A k \in Subs :
        hist[k].warned =>
            /\ hist[k].update = 1 /\ hist[k].comment = 1 /\ hist[k].fetch = 1
            /\ hist[k].counted
            /\ ~hist[k].failed
    /\ processed = Cardinality({k \in Subs : hist[k].counted})
    /\ (pc = "done" /\ \E k \in Subs : hist[k].warned) =>
            /\ \A j \in Subs : hist[j].visits = 1
            /\ exitCode = IntV(0)

C5_Witness ==
    /\ pc = "done"
    /\ Len(submissions) = 2
    /\ hist[1].warned
    /\ hist[2].update = 1
    /\ processed = 2

\* C6: a submission whose identifier resolution, fetch or update call raises
\* is skipped (no comment-post call, not counted); every submission is
\* visited exactly once and a confirmed run ends with exit code 0.
C6_FailuresSkipAndContinue ==
    /\ \A k \in Subs :
        /\ hist[k].failed => hist[k].comment = 0 /\ ~hist[k].counted
        /\ hist[k].visits <= 1
        /\ hist[k].visits = 1 <=> k <= i
    /\ (pc = "done" /\ Answered) =>
            /\ \A k \in Subs : hist[k].visits = 1
            /\ exitCode = IntV(0)

C6_Witness ==
    /\ pc = "done"
    /\ Len(submissions) = 2
    /\ hist[1].failed /\ hist[1].update = 1
    /\ hist[2].visits = 1 /\ hist[2].counted
    /\ exitCode = IntV(0)

\* C7 as claimed: a submission whose reference resolves to no remote id gets
\* no submission fetch, no backup block, no update and no comment-post call.
C7_UnresolvedSkipped ==
    \A k \in Subs :
        hist[k].resolved = "none" =>
            /\ hist[k].fetch = 0 /\ hist[k].backup = 0
            /\ hist[k].update = 0 /\ hist[k].comment = 0

\* C7 as amended: a submission whose reference resolves to no remote id is
\* addressed by the reference itself: the fetch is issued with it, the backup
\* block, update and comment-post calls follow as for any submission, it is
\* skipped only when that fetch or the update fails, and the batch goes on.
C7_UnresolvedUsesRef ==
    /\ \A k \in Subs :
        hist[k].resolved = "none" =>
            /\ hist[k].fetch > 0 => hist[k].addr = ResolveUserRef(submissions[k])
            /\ Over(k) => hist[k].fetch = 1
            /\ (Over(k) /\ ~hist[k].failed) =>
                    hist[k].backup = 1 /\ hist[k].update = 1 /\ hist[k].counted
            /\ hist[k].backup = 0 => hist[k].update = 0 /\ hist[k].comment = 0
    /\ (pc = "done" /\ Answered) => \A k \in Subs : hist[k].visits = 1

C7_Witness ==
    /\ pc = "done"
    /\ Len(submissions) = 2
    /\ hist[1].resolved = "none"
    /\ hist[1].addr = StrV("sis_user_id:a")
    /\ hist[1].update = 1
    /\ hist[2].visits = 1

\* C8: the backup block of a submission whose remote score is non-null
\* (0 included) has a previous_score entry equal to that score.
C8_BackupRecordsScore ==
    (pc = "update" /\ previous.score # None) =>
        LET blocks == fs[backup_path].blocks
        IN blocks[Len(blocks)].previous_score = previous.score

\* C9: each confirmed run writes its backup to a file no earlier run wrote.
C9_NeverOverwritten ==
    \A a \in 1..Len(runPath), b \in 1..Len(runPath) :
        a < b => runPath[a].path # runPath[b].path

\* C10: a creation response with file.url leads to the download with no
\* polling call; a creation response without it, followed by k status
\* responses without file.url and one with it, leads to exactly k + 1 polling
\* calls, one download and no timeout error.
C10_PollCounts ==
    /\ createHadFile => pollCalls = 0
    /\ (ppc = "done" /\ createHadFile) =>
            downloadCalls = 1 /\ perror \in {"none", "http"}
    /\ (ppc = "done" /\ ~createHadFile /\ file_info # None) =>
            /\ pollCalls = pendingSeen + 1
            /\ downloadCalls = 1
            /\ perror \in {"none", "http"}
    /\ file_info = None => downloadCalls = 0

C10_Witness ==
    /\ ppc = "done"
    /\ ~createHadFile
    /\ pendingSeen = 3
    /\ pollCalls = 4
    /\ downloadCalls = 1
    /\ perror = "none"

\* C11 (as stated): a run in which no response carried file.url and no
\* request failed ends with the timeout error.
C11_NoFileMeansTimeout ==
    (ppc = "done" /\ file_info = None /\ perror # "http") => perror = "timeout"

\* C11 (amended): with a positive poll interval and a finite timeout the
\* poller always ends; no polling call is issued once the elapsed time exceeds
\* the timeout; the timeout error is raised only past the deadline; and a run
\* whose creation response carried a job identifier, in which no request
\* failed and no response carried file.url, ends with the timeout error.
C11_Terminates ==
    /\ <>(ppc = "done")
    /\ [][pollCalls' > pollCalls => elapsed <= timeout]_vars
    /\ [](perror = "timeout" => elapsed > timeout /\ file_info = None)
    /\ []((ppc = "done" /\ file_info = None /\ Truthy(report_id)
                /\ perror # "http") => perror = "timeout")

C11_Witness ==
    /\ ppc = "done"
    /\ perror = "timeout"
    /\ Truthy(report_id)
    /\ pollCalls >= 2
    /\ pendingSeen = pollCalls
    /\ downloadCalls = 0

\* C12 (as stated): a creation response with neither file.url nor a job
\* identifier ends the poller with the missing-identifier error, never the
\* timeout error, after no polling call and no download call.
C12_MissingIdNeverTimeout ==
    (ppc = "done" /\ ~createHadFile /\ ~Truthy(report_id) /\ perror # "http") =>
        perror = "missing_id" /\ pollCalls = 0 /\ downloadCalls = 0

\* C12 (amended): a creation response with neither file.url nor a job
\* identifier ends the poller after no polling call and no download call, with
\* the missing-identifier error when the deadline has not passed at the first
\* test of the loop and with the timeout error when it has.
C12_MissingId ==
    (ppc = "done" /\ ~createHadFile /\ ~Truthy(report_id) /\ perror # "http") =>
        /\ pollCalls = 0
        /\ downloadCalls = 0
        /\ perror = IF elapsed > timeout THEN "timeout" ELSE "missing_id"

C12_Witness ==
    /\ ppc = "done"
    /\ ~createHadFile
    /\ report_id = None
    /\ perror = "missing_id"
    /\ pollCalls = 0
    /\ downloadCalls = 0

\* The lines cmd_upload prints before it returns.
Successes == {"Backup of previous scores/comments saved"}

Cancelled == {"Upload cancelled."}

NothingEligible == {"No submissions contain score or comment to upload."}

UserFailures ==
    {"Course configuration not found.", "Input TOML not found",
     "assignment_id is required in the TOML file.",
     "No submissions found in the TOML file."}

\* C13 (as stated): the command returns 0 on success and when the operator
\* cancels, and 1 on a missing course config, a missing input file and a
\* document with no eligible data to upload.
C13_NoEligibleDataFails ==
    pc = "done" =>
        exitCode = IF message \in Successes \cup Cancelled THEN IntV(0) ELSE IntV(1)

\* C13 (amended): the command returns 0 on success, when the operator cancels
\* and when no submission of the document carries a score or a comment, and 1
\* on a missing course config, a missing input file, a document without
\* assignment_id and a document without submissions.
C13_ExitCodes ==
    pc = "done" =>
        /\ message \in Successes \cup Cancelled \cup NothingEligible \cup UserFailures
        /\ exitCode = IF message \in UserFailures THEN IntV(1) ELSE IntV(0)
        /\ message \in NothingEligible =>
                assignment_id # None /\ submissions # << >> /\ EligibleCount = 0
        /\ message \in Cancelled => EligibleCount > 0 /\ ~Answered

C13_Witness ==
    /\ pc = "done"
    /\ message \in NothingEligible
    /\ Len(submissions) = 2
    /\ exitCode = IntV(0)

\* ---------------------------------------------------------------- try_int
\* Strings are sequences of characters.
StringsUpTo(chars, n) == UNION {[1..k -> chars] : k \in 0..n}

DigitChars == {"0", "1", "2", "3", "4", "5", "6", "7", "8", "9"}

CellChars == {"0", "1", "2", "3", "5", ".", "-", " ", "a", "b", "c"}

DigitVal(c) ==
    CASE c = "0" -> 0 [] c = "1" -> 1 [] c = "2" -> 2 [] c = "3" -> 3 [] c = "4" -> 4
      [] c = "5" -> 5 [] c = "6" -> 6 [] c = "7" -> 7 [] c = "8" -> 8 [] c = "9" -> 9

RECURSIVE Decimal(_)
Decimal(s) ==
    IF s = <<>> THEN 0
    ELSE 10 * Decimal(SubSeq(s, 1, Len(s) - 1)) + DigitVal(s[Len(s)])

AllDigits(s) == \A k \in 1..Len(s) : s[k] \in DigitChars

\* s.strip()
Strip(s) == RStrip(LStrip(s))

\* A float as mantissa / 10^scale, with no trailing zero in the fraction.
RECURSIVE FloatV(_, _)
FloatV(m, e) ==
    IF e > 0 /\ m % 10 = 0 THEN FloatV(m \div 10, e - 1) ELSE [float |-> << m, e >>]

ValueError == [raised |-> "ValueError"]

Unsigned(s) == IF s # <<>> /\ Head(s) = "-" THEN Tail(s) ELSE s

Sign(s) == IF s # <<>> /\ Head(s) = "-" THEN -1 ELSE 1

\* int(s): an optional sign and one or more digits
PyInt(s) ==
    LET u == Unsigned(s)
    IN IF u # <<>> /\ AllDigits(u) THEN IntV(Sign(s) * Decimal(u)) ELSE ValueError

\* float(s): an optional sign, digits and at most one point, one digit at least
PyFloat(s) ==
    LET u == Unsigned(s)
        points == {k \in 1..Len(u) : u[k] = "."}
    IN IF u # <<>> /\ AllDigits(u) THEN FloatV(Sign(s) * Decimal(u), 0)
       ELSE IF Cardinality(points) = 1
       THEN LET k == CHOOSE k \in points : TRUE
                ip == SubSeq(u, 1, k - 1)
                fp == SubSeq(u, k + 1, Len(u))
            IN IF AllDigits(ip) /\ AllDigits(fp) /\ ip \o fp # <<>>
               THEN FloatV(Sign(s) * Decimal(ip \o fp), Len(fp))
               ELSE ValueError
       ELSE ValueError

\* Fault: float is tried before int.
TryIntFloatFirst(s) ==
    LET t == Strip(s)
    IN IF PyFloat(t) # ValueError THEN PyFloat(t)
       ELSE IF PyInt(t) # ValueError THEN PyInt(t)
       ELSE IntV(0)

\* try_int(s)
TryInt(s) ==
    LET t == Strip(s)
    IN IF PyInt(t) # ValueError THEN PyInt(t)
       ELSE IF PyFloat(t) # ValueError THEN PyFloat(t)
       ELSE IntV(0)

\* The poller and the upload are idle.
InitCall ==
    /\ assignment_id = None
    /\ submissions = << >>
    /\ InitRun
    /\ PollIdle
    /\ cpc = "call"
    /\ ret = None

CallTryInt ==
    /\ cpc = "call"
    /\ ret' = TryInt(arg)
    /\ cpc' = "done"
    /\ UNCHANGED << arg, uploadVars, pollVars >>

InitTryInt == InitCall /\ arg \in StringsUpTo(CellChars, MaxStr)

NextTryInt == CallTryInt

SpecTryInt == InitTryInt /\ [][NextTryInt]_vars

\* C17: try_int returns, for every string, the integer value when the
\* stripped string parses as an integer, otherwise the float value when it
\* parses as a float, otherwise 0, and never raises: "12" gives 12, "3.5"
\* gives 3.5, "abc" and "" give 0.
C17_TryInt ==
    cpc = "done" =>
        LET t == Strip(arg)
        IN /\ ret # ValueError
           /\ PyInt(t) # ValueError => ret = PyInt(t) /\ "int" \in DOMAIN ret
           /\ (PyInt(t) = ValueError /\ PyFloat(t) # ValueError) =>
                    ret = PyFloat(t) /\ "float" \in DOMAIN ret
           /\ (PyInt(t) = ValueError /\ PyFloat(t) = ValueError) => ret = IntV(0)
           /\ arg = << "1", "2" >> => ret = IntV(12)
           /\ arg = << " ", "-", "5" >> => ret = IntV(-5)
           /\ arg = << "3", ".", "5" >> => ret = [float |-> << 35, 1 >>]
           /\ arg \in { << "a", "b", "c" >>, << >>, << "." >>, << "1", "-" >> } =>
                    ret = IntV(0)

C17_Witness ==
    /\ cpc = "done"
    /\ arg = << "3", ".", "5" >>
    /\ ret = [float |-> << 35, 1 >>]

\* ----------------------------------------- name_lf and the submission order
\* ord(c) of the characters that occur in the names
Ord(c) ==
    CASE c = " " -> 32 [] c = "," -> 44
      [] c = "A" -> 65 [] c = "B" -> 66 [] c = "C" -> 67 [] c = "D" -> 68
      [] c = "J" -> 74 [] c = "a" -> 97 [] c = "d" -> 100 [] c = "e" -> 101
      [] c = "l" -> 108 [] c = "o" -> 111 [] c = "y" -> 121
      [] c = "b" -> 98 [] c = "c" -> 99 [] c = "j" -> 106
      [] c = "0" -> 48 [] c = "1" -> 49 [] c = "7" -> 55 [] c = "9" -> 57

\* a < b of two str: by code point, a proper prefix first
RECURSIVE StrLess(_, _)
StrLess(a, b) ==
    IF b = <<>> THEN FALSE
    ELSE IF a = <<>> THEN TRUE
    ELSE IF Head(a) # Head(b) THEN Ord(Head(a)) < Ord(Head(b))
    ELSE StrLess(Tail(a), Tail(b))

\* name_lf(name): name.split(" ", 1), swapped when there are two parts
NameLF(name) ==
    LET spaces == {k \in 1..Len(name) : name[k] = " "}
    IN IF spaces = {} THEN name
       ELSE LET k == CHOOSE k \in spaces : \A j \in spaces : k <= j
            IN SubSeq(name, k + 1, Len(name)) \o << ",", " " >> \o SubSeq(name, 1, k - 1)

\* One step of sorted(): x goes behind every element whose key is not greater.
RECURSIVE InsertBy(_, _, _)
InsertBy(x, order, keys) ==
    IF order = <<>> THEN << x >>
    ELSE IF StrLess(keys[x], keys[Head(order)]) THEN << x >> \o order
    ELSE << Head(order) >> \o InsertBy(x, Tail(order), keys)

RECURSIVE SortedBy(_, _)
SortedBy(n, keys) == IF n = 0 THEN <<>> ELSE InsertBy(n, SortedBy(n - 1, keys), keys)

\* Fault: the rows are left in the order of the export.
InputOrder(names) == [k \in 1..Len(names) |-> k]

\* order = sorted(range(len(names)), key=lambda i: lf_names[i])
SubmissionOrder(names) ==
    SortedBy(Len(names), [k \in 1..Len(names) |-> NameLF(names[k])])

JoDoe == << "J", "o", " ", "D", "o", "e" >>
AlAde == << "A", "l", " ", "A", "d", "e" >>
alade == << "a", "l", " ", "a", "d", "e" >>
BoAde == << "B", "o", " ", "A", "d", "e" >>
AlBC == << "A", "l", " ", "B", " ", "C" >>
Cy == << "C", "y" >>

Names == {JoDoe, AlAde, alade, BoAde, AlBC, Cy}

\* The names of the sections, in the order generate_quiz_toml writes them.
CallOrder ==
    /\ cpc = "call"
    /\ ret' = [k \in 1..Len(arg) |-> arg[SubmissionOrder(arg)[k]]]
    /\ cpc' = "done"
    /\ UNCHANGED << arg, uploadVars, pollVars >>

InitOrder == InitCall /\ arg \in UNION {[1..n -> Names] : n \in 0..MaxNames}

NextOrder == CallOrder

SpecOrder == InitOrder /\ [][NextOrder]_vars

\* The rows of names in every order.
RowOrders(n) == {p \in [1..n -> 1..n] : \A a, b \in 1..n : p[a] = p[b] => a = b}

\* C14: the [[submission]] sections appear in ascending lexicographic,
\* case-sensitive order of name_lf(name), where name_lf turns "First Last"
\* into "Last, First" and leaves a name without a space unchanged; the order
\* of the names does not depend on the order of the rows.
C14_SortedByNameLF ==
    /\ NameLF(JoDoe) = << "D", "o", "e", ",", " ", "J", "o" >>
    /\ NameLF(Cy) = Cy
    /\ cpc = "done" =>
        /\ Len(ret) = Len(arg)
        /\ \A j, k \in 1..Len(ret) : j < k => ~StrLess(NameLF(ret[k]), NameLF(ret[j]))
        /\ \A n \in Names :
                Cardinality({k \in 1..Len(ret) : ret[k] = n})
                    = Cardinality({k \in 1..Len(arg) : arg[k] = n})
        /\ \A p \in RowOrders(Len(arg)) :
                LET rows == [k \in 1..Len(arg) |-> arg[p[k]]]
                IN [k \in 1..Len(rows) |-> rows[SubmissionOrder(rows)[k]]] = ret
        /\ arg = << JoDoe, AlAde >> => ret = << AlAde, JoDoe >>
        /\ arg = << alade, Cy, BoAde >> => ret = << BoAde, Cy, alade >>

C14_Witness ==
    /\ cpc = "done"
    /\ arg = << JoDoe, BoAde, AlAde >>
    /\ ret = << AlAde, BoAde, JoDoe >>

\* ------------------------------------------- cmd_get_assignments: the order
\* c.lower()
LowerChar(c) ==
    CASE c = "A" -> "a" [] c = "B" -> "b" [] c = "C" -> "c" [] c = "D" -> "d"
      [] c = "J" -> "j" [] OTHER -> c

\* name.lower()
LowerStr(s) == [k \in 1..Len(s) |-> LowerChar(s[k])]

\* str(n) of a user id, as characters
IdStr(v) ==
    CASE v = IntV(7) -> << "7" >> [] v = IntV(9) -> << "9" >>
      [] v = IntV(10) -> << "1", "0" >> [] OTHER -> << >>

\* sub.get("name") or user.get("name") or ""
DisplayName(sub) ==
    IF sub.name # None THEN sub.name.str
    ELSE IF sub.user # None /\ sub.user.name # None THEN sub.user.name.str
    ELSE << >>

\* _sort_key(sub): (name.lower(), uid)
SortKey(sub) ==
    << LowerStr(DisplayName(sub)), IdStr(PyOr(PyOr(sub.user_id, sub.id), None)) >>

\* a < b of two (str, str) tuples
KeyLess(a, b) == StrLess(a[1], b[1]) \/ (a[1] = b[1] /\ StrLess(a[2], b[2]))

RECURSIVE InsertSub(_, _)
InsertSub(sub, sorted) ==
    IF sorted = <<>> THEN << sub >>
    ELSE IF KeyLess(SortKey(sub), SortKey(Head(sorted))) THEN << sub >> \o sorted
    ELSE << Head(sorted) >> \o InsertSub(sub, Tail(sorted))

\* Fault: the submissions are rendered in the order the API returned them.
ApiOrder(subs) == subs

\* sorted(submissions, key=_sort_key)
RECURSIVE SortedSubs(_)
SortedSubs(subs) ==
    IF subs = <<>> THEN <<>>
    ELSE InsertSub(subs[Len(subs)], SortedSubs(SubSeq(subs, 1, Len(subs) - 1)))

\* The submissions the API may return.
ApiSubs ==
    [name : {None, StrV(JoDoe)}, user : {None, [name |-> StrV(BoAde)]},
     user_id : {IntV(9), IntV(10)}, id : {IntV(7)}]
    \cup [name : {StrV(AlBC), StrV(alade), StrV(AlAde)}, user : {None},
          user_id : {None, IntV(9)}, id : {IntV(7)}]

\* The submissions in the order cmd_get_assignments renders their blocks.
CallSortSubs ==
    /\ cpc = "call"
    /\ ret' = SortedSubs(arg)
    /\ cpc' = "done"
    /\ UNCHANGED << arg, uploadVars, pollVars >>

InitSortSubs == InitCall /\ arg \in UNION {[1..n -> ApiSubs] : n \in 0..MaxNames}

NextSortSubs == CallSortSubs

SpecSortSubs == InitSortSubs /\ [][NextSortSubs]_vars

\* C15 (as stated): in the document of cmd_get_assignments, of every two
\* submissions the one whose "Last, First" key is smaller appears first.
C15_SortedByLastFirst ==
    cpc = "done" =>
        \A j, k \in 1..Len(ret) : j < k =>
            ~StrLess(NameLF(DisplayName(ret[k])), NameLF(DisplayName(ret[j])))

\* C15 (amended): in the document of cmd_get_assignments the submissions are
\* in ascending order of the lower-cased display name and, for equal names, of
\* the user id as a string, whatever order the API returned them in.
C15_SortedByLowerName ==
    cpc = "done" =>
        /\ Len(ret) = Len(arg)
        /\ \A j, k \in 1..Len(ret) : j < k => ~KeyLess(SortKey(ret[k]), SortKey(ret[j]))
        /\ \A sub \in ApiSubs :
                Cardinality({k \in 1..Len(ret) : ret[k] = sub})
                    = Cardinality({k \in 1..Len(arg) : arg[k] = sub})

C15_Witness ==
    /\ cpc = "done"
    /\ Len(arg) = 3
    /\ arg[1].name = StrV(JoDoe) /\ arg[1].user_id = IntV(9)
    /\ arg[2].name = None /\ arg[2].user = [name |-> StrV(BoAde)]
    /\ arg[3].name = StrV(AlBC)
    /\ ret = << arg[3], arg[2], arg[1] >>

\* ------------------------------------------------------------ toml_string
\* textwrap.fill(p, 80)
WrapWidth == 80

Quote == "\""

Backslash == "\\"

Newline == "\n"

Return13 == "\r"

\* ''.join(parts[lo..hi]), by halves
RECURSIVE FlattenRange(_, _, _)
FlattenRange(parts, lo, hi) ==
    IF lo > hi THEN <<>>
    ELSE IF lo = hi THEN parts[lo]
    ELSE LET mid == (lo + hi) \div 2
         IN FlattenRange(parts, lo, mid) \o FlattenRange(parts, mid + 1, hi)

\* ''.join(parts)
Flatten(parts) == FlattenRange(parts, 1, Len(parts))

\* What toml_escape_basic puts in the place of s[k].
EscapePiece(s, k) ==
    IF s[k] = Backslash THEN << Backslash, Backslash >>
    ELSE IF s[k] = Quote THEN << Backslash, Quote >>
    ELSE IF s[k] = Return13
    THEN IF k < Len(s) /\ s[k + 1] = Newline THEN << >> ELSE << Newline >>
    ELSE << s[k] >>

\* toml_escape_basic(s): backslashes and quotes escaped, then \r\n and \r
\* turned into \n
TomlEscapeBasic(s) == Flatten([k \in 1..Len(s) |-> EscapePiece(s, k)])

\* s.splitlines() of a text whose only line terminator is \n
RECURSIVE SplitLines(_)
SplitLines(s) ==
    IF s = <<>> THEN <<>>
    ELSE LET ends == {k \in 1..Len(s) : s[k] = Newline}
         IN IF ends = {} THEN << s >>
            ELSE LET k == CHOOSE k \in ends : \A j \in ends : k <= j
                 IN << SubSeq(s, 1, k - 1) >> \o SplitLines(SubSeq(s, k + 1, Len(s)))

\* chunk.strip() == ''
IsBlank(chunk) == \A k \in 1..Len(chunk) : chunk[k] = " "

\* The length of the run of spaces, or of other characters, that starts p.
RunLen(p, blank) ==
    LET others == {k \in 1..Len(p) : (p[k] = " ") # blank}
    IN IF others = {} THEN Len(p)
       ELSE (CHOOSE k \in others : \A j \in others : k <= j) - 1

\* TextWrapper._split: runs of whitespace and words, alternating
RECURSIVE Chunks(_)
Chunks(p) ==
    IF p = <<>> THEN <<>>
    ELSE LET n == RunLen(p, Head(p) = " ")
         IN << SubSeq(p, 1, n) >> \o Chunks(SubSeq(p, n + 1, Len(p)))

\* The number of leading chunks that fit on a line that holds len characters.
RECURSIVE TakeFit(_, _, _)
TakeFit(chunks, len, width) ==
    IF chunks # <<>> /\ len + Len(Head(chunks)) <= width
    THEN 1 + TakeFit(Tail(chunks), len + Len(Head(chunks)), width)
    ELSE 0

\* TextWrapper._wrap_chunks: lines filled greedily; a chunk longer than the
\* width is cut where the line is full; whitespace at the start of a line but
\* the first, and at the end of every line, is dropped.
RECURSIVE WrapChunks(_, _, _)
WrapChunks(chunks, lines, width) ==
    IF chunks = <<>> THEN lines
    ELSE LET c1 == IF IsBlank(Head(chunks)) /\ lines # <<>> THEN Tail(chunks) ELSE chunks
             n == TakeFit(c1, 0, width)
             cur == SubSeq(c1, 1, n)
             rest == SubSeq(c1, n + 1, Len(c1))
             left == width - Len(Flatten(cur))
             long == rest # <<>> /\ Len(Head(rest)) > width
             cur2 == IF long THEN Append(cur, SubSeq(Head(rest), 1, left)) ELSE cur
             rest2 == IF long
                      THEN << SubSeq(Head(rest), left + 1, Len(Head(rest))) >> \o Tail(rest)
                      ELSE rest
             cur3 == IF cur2 # <<>> /\ IsBlank(cur2[Len(cur2)])
                     THEN SubSeq(cur2, 1, Len(cur2) - 1) ELSE cur2
         IN WrapChunks(rest2, IF cur3 # <<>> THEN Append(lines, Flatten(cur3)) ELSE lines,
                       width)

\* '\n'.join(lines)
RECURSIVE JoinLines(_)
JoinLines(lines) ==
    IF lines = <<>> THEN <<>>
    ELSE IF Len(lines) = 1 THEN lines[1]
    ELSE lines[1] \o << Newline >> \o JoinLines(Tail(lines))

\* textwrap.fill(p, width)
Fill(p, width) == JoinLines(WrapChunks(Chunks(p), <<>>, width))

\* The escaped and wrapped text.
Wrapped(s) ==
    LET paras == SplitLines(TomlEscapeBasic(s))
    IN JoinLines([k \in 1..Len(paras) |-> Fill(paras[k], WrapWidth)])

\* toml_string(s)
TomlString(s) ==
    LET w == Wrapped(s)
    IN IF \E k \in 1..Len(w) : w[k] = Newline
       THEN << Quote, Quote, Quote, Newline >> \o w \o << Newline, Quote, Quote, Quote >>
       ELSE << Quote >> \o w \o << Quote >>

TextChars == {"x", " ", Quote, Backslash, Newline, Return13}

\* n characters of a word
Filler(n) == [k \in 1..n |-> "x"]

\* Texts: a word of no, nearly a line's or a line's characters, and an ending.
Texts ==
    {Filler(n) \o t : n \in {0, WrapWidth - 2, WrapWidth - 1},
                      t \in StringsUpTo(TextChars, MaxText)}

CallTomlString ==
    /\ cpc = "call"
    /\ ret' = TomlString(arg)
    /\ cpc' = "done"
    /\ UNCHANGED << arg, uploadVars, pollVars >>

InitToml == InitCall /\ arg \in Texts

NextToml == CallTomlString

SpecToml == InitToml /\ [][NextToml]_vars

\* The literal is in block form.
IsBlock(lit) == Len(lit) >= 8 /\ SubSeq(lit, 1, 4) = << Quote, Quote, Quote, Newline >>

\* The text between the delimiters of a literal.
Payload(lit) == IF IsBlock(lit) THEN SubSeq(lit, 5, Len(lit) - 4) ELSE SubSeq(lit, 2, Len(lit) - 1)

\* The number of backslashes that end right before p[k].
BackslashesBefore(p, k) ==
    LET others == {j \in 1..(k - 1) : p[j] # Backslash}
    IN IF others = {} THEN k - 1
       ELSE k - 1 - (CHOOSE j \in others : \A m \in others : m <= j)

\* p[k] is a double quote that no backslash escapes.
BareQuote(p, k) == p[k] = Quote /\ BackslashesBefore(p, k) % 2 = 0

\* C18: toml_string emits the triple-quoted block form exactly when the
\* escaped and wrapped text contains a newline, a one-line double-quoted
\* scalar otherwise, and in both forms the payload contains no unescaped
\* double quote.
C18_QuotesEscaped ==
    cpc = "done" =>
        /\ IsBlock(ret) <=> \E k \in 1..Len(Wrapped(arg)) : Wrapped(arg)[k] = Newline
        /\ Payload(ret) = Wrapped(arg)
        /\ ~IsBlock(ret) => ret[1] = Quote /\ ret[Len(ret)] = Quote
        /\ \A k \in 1..Len(Payload(ret)) : ~BareQuote(Payload(ret), k)

\* ----------------------------------- parse_quiz_csv and generate_quiz_toml
\* bool(v) of an int or a float
NumTruthy(v) == v # IntV(0) /\ v # [float |-> << 0, 0 >>]

\* any(p)
PyAny(p) == \E k \in 1..Len(p) : NumTruthy(p[k])

\* Fault: the points of a question are kept whatever they are.
NoCollapse(p) == [list |-> p]

\* p if any(p) else None
Collapse(p) == IF PyAny(p) THEN [list |-> p] ELSE None

\* parse_quiz_csv, of an export read as its question headers (prompt and the
\* header of the points column) and its data rows (name, id, sis_id, and an
\* answer and a points cell for each question).
ParseQuizCsv(csv) ==
    LET nq == Len(csv.questions)
        nr == Len(csv.rows)
    IN [names |-> [r \in 1..nr |-> csv.rows[r].name],
        ids |-> [r \in 1..nr |-> csv.rows[r].id],
        sis_ids |-> [r \in 1..nr |-> csv.rows[r].sis_id],
        questions |-> [q \in 1..nq |-> csv.questions[q].prompt],
        answers |-> [q \in 1..nq |-> [r \in 1..nr |-> csv.rows[r].cells[q].answer]],
        points |-> [q \in 1..nq |->
                        Collapse([r \in 1..nr |-> TryInt(csv.rows[r].cells[q].points)])],
        max_points |-> [q \in 1..nq |-> TryInt(csv.questions[q].max)]]

DigitChar(d) ==
    CASE d = 0 -> "0" [] d = 1 -> "1" [] d = 2 -> "2" [] d = 3 -> "3" [] d = 4 -> "4"
      [] d = 5 -> "5" [] d = 6 -> "6" [] d = 7 -> "7" [] d = 8 -> "8" [] d = 9 -> "9"

\* str(n) of an int n >= 0
RECURSIVE NatStr(_)
NatStr(n) == IF n < 10 THEN << DigitChar(n) >> ELSE NatStr(n \div 10) \o << DigitChar(n % 10) >>

\* n as exactly e digits
RECURSIVE Padded(_, _)
Padded(n, e) == IF e = 0 THEN <<>> ELSE Padded(n \div 10, e - 1) \o << DigitChar(n % 10) >>

RECURSIVE Pow10(_)
Pow10(e) == IF e = 0 THEN 1 ELSE 10 * Pow10(e - 1)

Abs(n) == IF n < 0 THEN -n ELSE n

\* str(v) of an int or a float, as f"{v}" writes it
NumStr(v) ==
    IF "int" \in DOMAIN v
    THEN (IF v.int < 0 THEN << "-" >> ELSE <<>>) \o NatStr(Abs(v.int))
    ELSE LET m == v.float[1]
             e == v.float[2]
         IN (IF m < 0 THEN << "-" >> ELSE <<>>)
                \o NatStr(Abs(m) \div Pow10(e)) \o << "." >>
                \o (IF e = 0 THEN << "0" >> ELSE Padded(Abs(m) % Pow10(e), e))

\* One "key = token" line of the document.
Line(key, token) == [key |-> key, token |-> token]

\* f"q{qn+1}{suffix}"
QKey(n, suffix) == "q" \o ToString(n) \o suffix

\* if pts:
KeepsPoints(pts) == pts # None /\ pts.list # << >>

\* The lines of the [[submission]] section of row i.
SubmissionSection(sa, row) ==
    << Line("name", TomlString(sa.names[row])),
       Line("id", sa.ids[row]),
       Line("sis_id", sa.sis_ids[row]) >>
    \o Flatten([q \in 1..Len(sa.answers) |->
            << Line(QKey(q, "_answer"), TomlString(sa.answers[q][row])) >>
            \o (IF KeepsPoints(sa.points[q])
                THEN << Line(QKey(q, "_points"), NumStr(sa.points[q].list[row])) >>
                ELSE << >>)])

\* The lines before the first section.
HeadLines(quiz_info, sa) ==
    LET assignment_id_ == PyOr(quiz_info.assignment_id, quiz_info.id)
        quiz_id_ == PyOr(quiz_info.quiz_id, quiz_info.id)
    IN (IF assignment_id_ # None
        THEN << Line("assignment_id", NumStr(assignment_id_)) >> ELSE << >>)
       \o (IF quiz_id_ # None THEN << Line("quiz_id", NumStr(quiz_id_)) >> ELSE << >>)
       \o << Line("title", TomlString(quiz_info.title)) >>
       \o Flatten([q \in 1..Len(sa.questions) |->
            << Line(QKey(q, "_prompt"), TomlString(sa.questions[q])),
               Line(QKey(q, "_max_points"), NumStr(sa.max_points[q])) >>])

\* generate_quiz_toml(quiz_info, student_analysis) for a quiz_info with a
\* title and no description: the lines of the head and of every section.
GenerateQuizToml(quiz_info, sa) ==
    LET order == SubmissionOrder(sa.names)
    IN [head |-> HeadLines(quiz_info, sa),
        submissions |-> [k \in 1..Len(order) |-> SubmissionSection(sa, order[k])]]

QuizInfo ==
    [id |-> IntV(7), assignment_id |-> IntV(101), quiz_id |-> None,
     title |-> << "x", " ", "x" >>]

PointCells == { << >>, << "0" >>, << "5" >>, << "2", ".", "5" >>, << "a" >> }

RowNames == << JoDoe, AlAde, Cy, BoAde, AlBC >>

\* An export with two questions whose points cells are the table's.
PointsCsv(table) ==
    [questions |-> << [prompt |-> << "x" >>, max |-> << "5" >>],
                      [prompt |-> << "x", "x" >>, max |-> << "3" >>] >>,
     rows |-> [r \in 1..Len(table) |->
                [name |-> RowNames[r], id |-> << "5" >>, sis_id |-> << "1", "2" >>,
                 cells |-> [q \in 1..2 |-> [answer |-> << "x" >>, points |-> table[r][q]]]]]]

CallParseGenerate ==
    /\ cpc = "call"
    /\ LET sa == ParseQuizCsv(arg)
       IN ret' = [student_analysis |-> sa, toml |-> GenerateQuizToml(QuizInfo, sa)]
    /\ cpc' = "done"
    /\ UNCHANGED << arg, uploadVars, pollVars >>

InitPoints ==
    /\ InitCall
    /\ \E table \in UNION {[1..r -> [1..2 -> PointCells]] : r \in 0..MaxRows} :
            arg = PointsCsv(table)

NextPoints == CallParseGenerate

SpecPoints == InitPoints /\ [][NextPoints]_vars

\* The points cells that are neither empty nor zero.
NonZeroCells == { << "5" >>, << "2", ".", "5" >> }

\* The keys of the lines of a section.
KeysOf(section) == {section[k].key : k \in 1..Len(section)}

\* C16: a question whose points cell is empty in every data row gets points
\* None from parse_quiz_csv and no q<N>_points line in any section; a question
\* with a points cell that is neither empty nor zero gets a q<N>_points line,
\* with the row's points, in every section.
C16_NullPointsCollapse ==
    cpc = "done" =>
        \A q \in 1..2 :
            /\ (\A r \in 1..Len(arg.rows) : arg.rows[r].cells[q].points = << >>) =>
                /\ ret.student_analysis.points[q] = None
                /\ \A k \in 1..Len(ret.toml.submissions) :
                        QKey(q, "_points") \notin KeysOf(ret.toml.submissions[k])
            /\ (\E r \in 1..Len(arg.rows) : arg.rows[r].cells[q].points \in NonZeroCells) =>
                /\ ret.student_analysis.points[q] # None
                /\ Len(ret.toml.submissions) = Len(arg.rows)
                /\ \A k \in 1..Len(ret.toml.submissions) :
                        Cardinality({n \in 1..Len(ret.toml.submissions[k]) :
                            ret.toml.submissions[k][n].key = QKey(q, "_points")}) = 1

C16_Witness ==
    /\ cpc = "done"
    /\ Len(arg.rows) = 2
    /\ arg.rows[1].cells[1].points = << >> /\ arg.rows[2].cells[1].points = << >>
    /\ arg.rows[1].cells[2].points = << >> /\ arg.rows[2].cells[2].points = << "5" >>
    /\ ret.toml.submissions[1] =
            << Line("name", << Quote >> \o AlAde \o << Quote >>),
               Line("id", << "5" >>), Line("sis_id", << "1", "2" >>),
               Line("q1_answer", << Quote, "x", Quote >>),
               Line("q2_answer", << Quote, "x", Quote >>),
               Line("q2_points", << "5" >>) >>
    /\ ret.toml.submissions[2][6] = Line("q2_points", << "0" >>)

\* ------------------------------------------------- tomllib: decoding values
TOMLDecodeError == [raised |-> "TOMLDecodeError"]

\* p[k] follows a backslash that escapes it.
Escaped(p, k) == BackslashesBefore(p, k) % 2 = 1

\* p[k] is a backslash that starts an escape.
StartsEscape(p, k) == p[k] = Backslash /\ ~Escaped(p, k)

\* The backslash p[k] is the last character of its line but for spaces.
LineEnding(p, k) ==
    \E n \in (k + 1)..Len(p) : p[n] = Newline /\ \A m \in (k + 1)..(n - 1) : p[m] = " "

\* p[k] is whitespace that a line-ending backslash trims.
Trimmed(p, k) ==
    \E j \in 1..(k - 1) :
        /\ StartsEscape(p, j)
        /\ LineEnding(p, j)
        /\ \A m \in (j + 1)..k : p[m] \in {" ", Newline}

\* Every escape of the body is one the format knows.
EscapesValid(p, multiline) ==
    \A k \in 1..Len(p) :
        StartsEscape(p, k) =>
            \/ k < Len(p) /\ p[k + 1] \in {Backslash, Quote}
            \/ multiline /\ LineEnding(p, k)

\* What the body's character p[k] stands for.
UnescapePiece(p, k) ==
    IF StartsEscape(p, k) \/ Trimmed(p, k) THEN << >> ELSE << p[k] >>

\* The value of a basic string with body p.
Unescape(p) == Flatten([k \in 1..Len(p) |-> UnescapePiece(p, k)])

\* Three double quotes, the first one bare, start at p[k].
ClosesAt(p, k) ==
    k + 2 <= Len(p) /\ BareQuote(p, k) /\ p[k + 1] = Quote /\ p[k + 2] = Quote

\* The value of a "key = token" line, as tomllib reads the token.
Decode(token) ==
    IF Len(token) >= 7 /\ SubSeq(token, 1, 3) = << Quote, Quote, Quote >>
    THEN LET raw == SubSeq(token, 4, Len(token) - 3)
             body == IF raw # << >> /\ raw[1] = Newline THEN Tail(raw) ELSE raw
         IN IF SubSeq(token, Len(token) - 2, Len(token)) = << Quote, Quote, Quote >>
                /\ (\A k \in 1..Len(raw) : ~ClosesAt(raw, k))
                /\ EscapesValid(body, TRUE)
            THEN [str |-> Unescape(body)]
            ELSE TOMLDecodeError
    ELSE IF Len(token) >= 2 /\ token[1] = Quote
    THEN LET body == SubSeq(token, 2, Len(token) - 1)
         IN IF token[Len(token)] = Quote
                /\ (\A k \in 1..Len(body) : ~BareQuote(body, k) /\ body[k] # Newline)
                /\ EscapesValid(body, FALSE)
            THEN [str |-> Unescape(body)]
            ELSE TOMLDecodeError
    ELSE IF PyInt(token) # ValueError /\ (Len(Unsigned(token)) = 1 \/ Unsigned(token)[1] # "0")
    THEN PyInt(token)
    ELSE IF PyFloat(token) # ValueError /\ PyInt(token) = ValueError
            /\ Unsigned(token)[1] # "." /\ token[Len(token)] # "."
    THEN PyFloat(token)
    ELSE TOMLDecodeError

\* tomllib.loads of the document: every line decoded, or the error.
DecodeLines(lines) == [k \in 1..Len(lines) |-> Line(lines[k].key, Decode(lines[k].token))]

LinesValid(lines) == \A k \in 1..Len(lines) : Decode(lines[k].token) # TOMLDecodeError

DecodeToml(toml) ==
    IF LinesValid(toml.head)
        /\ \A k \in 1..Len(toml.submissions) : LinesValid(toml.submissions[k])
    THEN [head |-> DecodeLines(toml.head),
          submissions |-> [k \in 1..Len(toml.submissions) |->
                                DecodeLines(toml.submissions[k])]]
    ELSE TOMLDecodeError

\* ---------------------------------------------------------- the round trip
SisIdCells == { << "1", "2" >>, << "a", "1" >>, << >> }

AnswerCells == { << "x" >>, << "x", " ", "x" >>, << "x", Quote >>, << "x", Newline, "x" >> }

RoundTripRows == [sis_id : SisIdCells, answer : AnswerCells, points : { << >>, << "5" >> }]

\* An export with one question and the given rows.
RoundTripCsv(rows) ==
    [questions |-> << [prompt |-> << "x" >>, max |-> << "5" >>] >>,
     rows |-> [r \in 1..Len(rows) |->
                [name |-> RowNames[r], id |-> << "5" >>, sis_id |-> rows[r].sis_id,
                 cells |-> << [answer |-> rows[r].answer, points |-> rows[r].points] >>]]]

CallRoundTrip ==
    /\ cpc = "call"
    /\ LET sa == ParseQuizCsv(arg)
           toml == GenerateQuizToml(QuizInfo, sa)
       IN ret' = [student_analysis |-> sa, toml |-> toml, decoded |-> DecodeToml(toml)]
    /\ cpc' = "done"
    /\ UNCHANGED << arg, uploadVars, pollVars >>

InitRoundTrip ==
    /\ InitCall
    /\ \E rows \in UNION {[1..r -> RoundTripRows] : r \in 0..MaxRows} :
            arg = RoundTripCsv(rows)

NextRoundTrip == CallRoundTrip

SpecRoundTrip == InitRoundTrip /\ [][NextRoundTrip]_vars

\* The fields the encoder was given, as the values a decoder should return.
OriginalSection(sa, row) ==
    << Line("name", [str |-> sa.names[row]]),
       Line("id", [str |-> sa.ids[row]]),
       Line("sis_id", [str |-> sa.sis_ids[row]]) >>
    \o Flatten([q \in 1..Len(sa.answers) |->
            << Line(QKey(q, "_answer"), [str |-> sa.answers[q][row]]) >>
            \o (IF sa.points[q] # None
                THEN << Line(QKey(q, "_points"), sa.points[q].list[row]) >>
                ELSE << >>)])

OriginalHead(quiz_info, sa) ==
    << Line("assignment_id", quiz_info.assignment_id),
       Line("quiz_id", quiz_info.id),
       Line("title", [str |-> quiz_info.title]) >>
    \o Flatten([q \in 1..Len(sa.questions) |->
            << Line(QKey(q, "_prompt"), [str |-> sa.questions[q]]),
               Line(QKey(q, "_max_points"), sa.max_points[q]) >>])

\* C19: decoding the document that generate_quiz_toml wrote gives every field
\* of the original back, but for the q<N>_points of a collapsed question.
C19_RoundTrip ==
    cpc = "done" =>
        /\ ret.decoded # TOMLDecodeError
        /\ ret.decoded.head = OriginalHead(QuizInfo, ret.student_analysis)
        /\ Len(ret.decoded.submissions) = Len(arg.rows)
        /\ \A k \in 1..Len(arg.rows) :
                ret.decoded.submissions[k] =
                    OriginalSection(ret.student_analysis,
                                    SubmissionOrder(ret.student_analysis.names)[k])

\* ------------------------------------------- Course: the status of a response
\* The statuses a request may be answered with.
Statuses == {200, 201, 403, 404, 500}

\* resp.raise_for_status() raises
RaisesForStatus(status) == status >= 400 /\ status < 600

\* Fault: the status of the response is not looked at.
RequestUnchecked(status) == [raised |-> FALSE, result |-> IntV(status)]

\* requests.get/put/post(...); resp.raise_for_status(); return resp.json()
Request(status) ==
    IF RaisesForStatus(status) THEN [raised |-> TRUE, result |-> None]
    ELSE [raised |-> FALSE, result |-> IntV(status)]

\* The methods of Course that issue one request and check it this way.
CheckedCalls ==
    {"_paginate", "get_submission", "update_submission", "add_comment",
     "download_file", "report_create", "report_poll", "report_download"}

\* GET /api/v1/users/<candidate> in resolve_canvas_user_id: 404 moves on to
\* the next candidate, any other failure raises.
DirectResponse(status, has_id) ==
    IF status = 404 THEN "404"
    ELSE IF Request(status).raised THEN "error"
    ELSE IF has_id THEN "hit"
    ELSE "noid"

\* The roster scan of resolve_canvas_user_id, a _paginate call.
RosterResponse(status) ==
    IF Request(status).raised THEN [ok |-> FALSE, users |-> << >>]
    ELSE [ok |-> TRUE, users |-> << UserB, UserA >>]

\* One call of a method of Course under the statuses of its responses.
CallCourse ==
    /\ cpc = "call"
    /\ ret' = IF arg.op \in CheckedCalls THEN Request(arg.status[1])
              ELSE LET r == ResolveCanvasUserId(StrV("sis_user_id:a"), << >>,
                                DirectResponse(arg.status[1], arg.has_id),
                                DirectResponse(arg.status[2], arg.has_id),
                                RosterResponse(arg.status[3]))
                   IN [raised |-> r.raised, result |-> r.result, lookups |-> r.lookups]
    /\ cpc' = "done"
    /\ UNCHANGED << arg, uploadVars, pollVars >>

InitCourse ==
    /\ InitCall
    /\ arg \in [op : CheckedCalls, status : [1..1 -> Statuses], has_id : {TRUE}]
            \cup [op : {"resolve_canvas_user_id"}, status : [1..3 -> Statuses],
                  has_id : BOOLEAN]

NextCourse == CallCourse

SpecCourse == InitCourse /\ [][NextCourse]_vars

\* The status is not a 2xx one.
Non2xx(status) == status < 200 \/ status >= 300

\* The responses the call received: the user lookup goes on to its second
\* candidate and to the roster scan only while it has found no id.
Received(a, r) ==
    IF a.op \in CheckedCalls THEN {1}
    ELSE {k \in 1..3 : k <= r.lookups}

ResolveKinds ==
    SubmissionsOf({IntV(8)}, {StrV("ok")}, {None, StrV("a"), StrV("b")}, {IntV(55)})

\* One upload run of any document of such submissions.
InitResolve ==
    /\ assignment_id = IntV(101)
    /\ submissions \in DocsOf(ResolveKinds)
    /\ InitRun
    /\ CallIdle
    /\ PollIdle

\* The remote submissions are ungraded and carry no comment.
NextResolve == UploadStep({prev \in PrevBasic : prev.score = None})

SpecResolve == InitResolve /\ [][NextResolve]_vars

\* The requests a lookup of the reference of submission k may issue, in order.
LookupOrder(k) ==
    IF submissions[k].sis_id = None THEN << >>
    ELSE << "sis_user_id:" \o submissions[k].sis_id.str,
            "sis_login_id:" \o submissions[k].sis_id.str, "roster" >>

\* The cache keys a roster scan stores for a user that has an id.
RosterKeys(u) ==
    (IF Truthy(u.sis_user_id) THEN {"sis_user_id:" \o u.sis_user_id.str} ELSE {})
        \cup (IF Truthy(u.login_id) THEN {"sis_login_id:" \o u.login_id.str} ELSE {})
        \cup {PyStr(u.id).str}

\* The reference of the submission the loop is at is in one of the caches.
RefCached ==
    /\ pc = "resolve"
    /\ \/ ResolveUserRef(submissions[i]).str \in DOMAIN resolved_cache
       \/ ResolveUserRef(submissions[i]).str \in DOMAIN user_cache

\* What holds of the lookups of an upload run in every state.
LookupsInOrder ==
    \A k \in Subs :
        /\ hist[k].lookups = Len(hist[k].requests)
        /\ Len(hist[k].requests) <= Len(LookupOrder(k))
        /\ hist[k].requests = SubSeq(LookupOrder(k), 1, Len(hist[k].requests))
        /\ hist[k].resolved = "cached" => hist[k].requests = << >>
        /\ hist[k].scan # None =>
            /\ Len(hist[k].requests) = 3
            /\ hist[k].scan.ok =>
                \A n \in 1..Len(hist[k].scan.users) :
                    LET u == hist[k].scan.users[n] IN
                    Truthy(u.id) =>
                        \A key \in RosterKeys(u) :
                            key \in DOMAIN user_cache /\ Truthy(user_cache[key])
        /\ \A e \in Subs :
            (e < k /\ hist[e].resolved \in {"id", "none", "cached"}
                   /\ ResolveUserRef(submissions[e]) = ResolveUserRef(submissions[k]))
                => hist[k].requests = << >>

\* C21: in an upload run the lookup of a reference issues its requests in the
\* order SIS id, login id, roster scan, and only when the reference is in
\* neither cache; a roster scan that succeeds stores the keys of every user
\* that has an id; a submission whose reference an earlier submission of the
\* run resolved, or that a roster scan stored, causes no lookup request.
C21_ResolutionOrderAndCaching ==
    /\ []LookupsInOrder
    /\ [][RefCached => hist'[i].requests = hist[i].requests]_vars

C21_Witness ==
    /\ pc = "done"
    /\ Len(submissions) = 2
    /\ hist[1].requests = << "sis_user_id:a", "sis_login_id:a", "roster" >>
    /\ hist[1].scan = [ok |-> TRUE, users |-> << UserNoId, UserB >>]
    /\ hist[1].resolved = "none"
    /\ submissions[2].sis_id = StrV("b")
    /\ hist[2].resolved = "id"
    /\ hist[2].requests = << >>
    /\ hist[2].addr = IntV(9)
    /\ hist[2].update = 1

\* --------------------------------------------------------- Course._next_link
\* The characters of a string.
Chars(s) == [k \in 1..Len(s) |-> SubSeq(s, k, k)]

\* s.split(sep) for a separator of one character
SplitAt(s, sep) ==
    LET at == {k \in 1..Len(s) : s[k] = sep}
        Nth(n) == CHOOSE p \in at : Cardinality({q \in at : q < p}) = n - 1
        From(n) == IF n = 1 THEN 1 ELSE Nth(n - 1) + 1
        To(n) == IF n = Cardinality(at) + 1 THEN Len(s) ELSE Nth(n) - 1
    IN [n \in 1..(Cardinality(at) + 1) |-> SubSeq(s, From(n), To(n))]

\* "rel=" in p
HasRel(p) == \E k \in 1..(Len(p) - 3) : SubSeq(p, k, k + 3) = << "r", "e", "l", "=" >>

\* s.strip('"')
StripQuotes(s) ==
    LET keep == {k \in 1..Len(s) : s[k] # Quote}
    IN IF keep = {} THEN << >>
       ELSE SubSeq(s, CHOOSE k \in keep : \A j \in keep : k <= j,
                      CHOOSE k \in keep : \A j \in keep : k >= j)

\* p.split("=", 1)[1].strip().strip('"')
RelValue(p) ==
    LET k == CHOOSE k \in 1..Len(p) : p[k] = "=" /\ \A j \in 1..(k - 1) : p[j] # "="
    IN StripQuotes(Strip(SubSeq(p, k + 1, Len(p))))

\* rel after the loop over the parameters of a part: that of the last
\* parameter that holds "rel=", None when there is none.
RelOf(params) ==
    LET with == {k \in 1..Len(params) : HasRel(params[k])}
    IN IF with = {} THEN None
       ELSE StrV(RelValue(params[CHOOSE k \in with : \A j \in with : k >= j]))

\* url_part.strip()[1:-1]
UrlOf(section) == LET u == Strip(section[1]) IN StrV(SubSeq(u, 2, Len(u) - 1))

\* Fault: the first link of the header is taken, whatever its rel.
NextLinkAny(header) ==
    IF header = None THEN None
    ELSE IF header.str = << >> THEN None
    ELSE UrlOf(SplitAt(Strip(SplitAt(header.str, ",")[1]), ";"))

\* _next_link(link_header): the URL of the first part whose rel is next
NextLink(header) ==
    IF header = None THEN None
    ELSE IF header.str = << >> THEN None
    ELSE LET parts == SplitAt(header.str, ",")
             Section(j) == SplitAt(Strip(parts[j]), ";")
             next == {j \in 1..Len(parts) :
                        /\ Len(Section(j)) >= 2
                        /\ RelOf(Tail(Section(j))) = StrV(Chars("next"))}
         IN IF next = {} THEN None
            ELSE UrlOf(Section(CHOOSE j \in next : \A k \in next : j <= k))

\* ----------------------------------------------------------- Course._paginate
\* The URL of page k of the collection.
PageUrl(k) == Chars("u" \o ToString(k))

\* The Link headers page k may carry, each with the URL its rel="next" entry
\* names (None when it has no such entry). The last page names no next page.
Links(k) ==
    LET cur == "<u" \o ToString(k) \o ">"
        nxt == "<u" \o ToString(k + 1) \o ">"
        to == StrV(PageUrl(k + 1))
    IN { [link |-> None, next |-> None],
         [link |-> StrV(<< >>), next |-> None],
         [link |-> StrV(Chars(cur \o "; rel=\"current\",<u1>; rel=\"first\"")),
          next |-> None],
         [link |-> StrV(Chars(nxt)), next |-> None] }
       \cup
       IF k >= MaxPages THEN {}
       ELSE { [link |-> StrV(Chars(cur \o "; rel=\"current\"," \o nxt
                                   \o "; rel=\"next\",<u1>; rel=\"first\"")),
               next |-> to],
              [link |-> StrV(Chars("<u1>; rel=\"prev\", " \o nxt \o "; rel=\"next\"")),
               next |-> to],
              [link |-> StrV(Chars(nxt \o ";rel=next")), next |-> to],
              [link |-> StrV(Chars(nxt \o "; title=\"x\"; rel=\"next\"")),
               next |-> to] }

\* The JSON bodies page k may carry: a list, an object, null.
Bodies(k) ==
    { [list |-> << >>],
      [list |-> << IntV(10 * k + 1), IntV(10 * k + 2) >>],
      [dict |-> << << "quizzes", IntV(10 * k) >> >>],
      None }

\* The responses the server may give to a GET of url: a page, or a failure
\* that carries no Link header.
Responses(url) ==
    LET known == {k \in 1..MaxPages : PageUrl(k) = url.str}
    IN IF known = {}
       THEN { [status |-> 404, body |-> None, link |-> None, next |-> None] }
       ELSE LET k == CHOOSE k \in known : TRUE
            IN { [status |-> 200, body |-> b, link |-> l.link, next |-> l.next] :
                    b \in Bodies(k), l \in Links(k) }
               \cup
               { [status |-> st, body |-> b, link |-> None, next |-> None] :
                    st \in {st \in Statuses : RaisesForStatus(st)}, b \in Bodies(k) }

\* list(page_items.values()) for a dict, page_items otherwise
PageItems(body) ==
    IF body = None THEN None
    ELSE IF "dict" \in DOMAIN body
    THEN [list |-> [k \in 1..Len(body.dict) |-> body.dict[k][2]]]
    ELSE body

\* isinstance(page_items, Iterable)
IsIterable(v) == v # None /\ "list" \in DOMAIN v

\* `while url`
UrlLeft(url) == IF url = None THEN FALSE ELSE url.str # << >>

\* results = []; first_params = params
PaginateEnter ==
    /\ cpc = "call"
    /\ ret' = [url |-> arg.url, first_params |-> arg.params, results |-> << >>,
               requests |-> << >>, pages |-> << >>, raised |-> "", returned |-> None]
    /\ cpc' = "loop"
    /\ UNCHANGED << arg, uploadVars, pollVars >>

\* One turn of the loop: the GET, raise_for_status, the items, the next link.
PaginateGet ==
    /\ cpc = "loop"
    /\ UrlLeft(ret.url)
    /\ \E resp \in Responses(ret.url) :
        LET sent == Append(ret.requests, [url |-> ret.url, params |-> ret.first_params])
            seen == Append(ret.pages, resp)
            page_items == PageItems(resp.body)
        IN IF RaisesForStatus(resp.status)
           THEN /\ ret' = [ret EXCEPT !.requests = sent, !.pages = seen,
                                      !.raised = "HTTPError"]
                /\ cpc' = "done"
           ELSE IF ~IsIterable(page_items)
           THEN /\ ret' = [ret EXCEPT !.requests = sent, !.pages = seen,
                                      !.raised = "TypeError"]
                /\ cpc' = "done"
           ELSE /\ ret' = [ret EXCEPT !.requests = sent, !.pages = seen,
                                      !.results = @ \o page_items.list,
                                      !.url = NextLink(resp.link),
                                      !.first_params = None]
                /\ cpc' = "loop"
    /\ UNCHANGED << arg, uploadVars, pollVars >>

\* return results
PaginateReturn ==
    /\ cpc = "loop"
    /\ ~UrlLeft(ret.url)
    /\ ret' = [ret EXCEPT !.returned = [list |-> ret.results]]
    /\ cpc' = "done"
    /\ UNCHANGED << arg, uploadVars, pollVars >>

InitPaginate ==
    /\ InitCall
    /\ arg \in [url : {StrV(PageUrl(1))}, params : {None, [per_page |-> IntV(100)]}]

NextPaginate == PaginateEnter \/ PaginateGet \/ PaginateReturn

SpecPaginate == InitPaginate /\ [][NextPaginate]_vars

\* The response is a 2xx one whose body is a list or an object.
GoodPage(resp) ==
    /\ resp.status >= 200 /\ resp.status < 300
    /\ resp.body # None

\* The items of a page: the elements of a list, the values of an object.
ItemsOf(resp) ==
    IF "dict" \in DOMAIN resp.body
    THEN [k \in 1..Len(resp.body.dict) |-> resp.body.dict[k][2]]
    ELSE resp.body.list

\* C22: _paginate issues one GET per page, the first to the given URL with the
\* query parameters, each later one without parameters to the URL the
\* rel="next" entry of the page before names; it stops at the first page
\* that has no such entry and returns the items of all pages in the order
\* fetched; a page that fails ends the call with an error and no result.
C22_Paginate ==
    cpc \in {"loop", "done"} =>
        LET n == Len(ret.pages) IN
        /\ Len(ret.requests) = n
        /\ n >= 1 => ret.requests[1] = [url |-> arg.url, params |-> arg.params]
        /\ \A j \in 2..n :
            ret.requests[j] = [url |-> ret.pages[j - 1].next, params |-> None]
        /\ \A j \in 1..(n - 1) : GoodPage(ret.pages[j]) /\ ret.pages[j].next # None
        /\ cpc = "loop" => ret.returned = None /\ ret.raised = ""
        /\ cpc = "done" =>
            /\ n >= 1
            /\ ret.raised = "" <=> GoodPage(ret.pages[n])
            /\ ret.raised = "" =>
                /\ ret.pages[n].next = None
                /\ ret.returned =
                     [list |-> Flatten([j \in 1..n |-> ItemsOf(ret.pages[j])])]
            /\ ret.raised # "" => ret.returned = None

C22_Witness ==
    /\ cpc = "done"
    /\ arg.params # None
    /\ Len(ret.pages) = MaxPages
    /\ ret.raised = ""
    /\ "dict" \in DOMAIN ret.pages[2].body
    /\ ret.returned = [list |-> << IntV(11), IntV(12), IntV(20), IntV(31), IntV(32) >>]

====
